---- MODULE Spec2Model ----
(***************************************************************************)
(* Handyman of Fairfax AI assistant backend: the WebSocket chat handler    *)
(* (/ws), the Twilio voice webhook (/twilio-voice), the knowledge-base     *)
(* load and the OpenAI completion helpers, in the three revisions of       *)
(* server.js held by the repository (src/server.js, src/unnamed/part_000,  *)
(* src/unnamed/part_001).                                                  *)
(*                                                                         *)
(* A JavaScript string is a sequence of pieces.  A piece is one character  *)
(* ("&", "<", " ", "x", ...) wherever the code looks at characters (trim,  *)
(* escapeForXml) and a whole literal of the source where the code only     *)
(* concatenates it (a sentence or a tag of a template).                    *)
(***************************************************************************)
EXTENDS Integers, Sequences, FiniteSets, TLC

VARIABLES
    rev,             \* which revision of server.js is running
    OPENAI_API_KEY,  \* TRUE iff process.env.OPENAI_API_KEY is set
    kbFile,          \* what knowledge-base.json holds on disk at startup
    knowledgeBase,   \* the record the load left in `knowledgeBase`
    running,         \* FALSE once an unhandled rejection has ended the process
    calls,           \* the requests to /twilio-voice, by arrival number
    connOpen,        \* TRUE while the /ws connection is open
    msgs,            \* the frames received on the connection, by arrival number
    wsSent,          \* what ws.send has put on the connection, in order
    arg,             \* the input of a helper applied on its own
    ret              \* what that helper returned

vars == <<rev, OPENAI_API_KEY, kbFile, knowledgeBase, running, calls,
          connOpen, msgs, wsSent, arg, ret>>

(***************************************************************************)
(* Bounds of the model.                                                    *)
(***************************************************************************)
MaxLen == 3
MaxCalls == 2
MaxMsgs == 2

CallIds == 1..MaxCalls
MsgIds == 1..MaxMsgs

(***************************************************************************)
(* Strings.                                                                *)
(***************************************************************************)
Chars == {"&", "<", ">", "x", " "}

Texts(n) == UNION {[1..k -> Chars] : k \in 0..n}

\* String.prototype.trim strips white space at both ends.
IsSpace(c) == c = " "

RECURSIVE trimStart(_)
trimStart(s) ==
    IF s # <<>> /\ IsSpace(Head(s)) THEN trimStart(Tail(s)) ELSE s

RECURSIVE trimEnd(_)
trimEnd(s) ==
    IF s # <<>> /\ IsSpace(s[Len(s)]) THEN trimEnd(SubSeq(s, 1, Len(s) - 1)) ELSE s

trimIdentity(s) == s

trim(s) == trimEnd(trimStart(s))

\* String.prototype.replace(/c/g, rep): every occurrence, left to right, and
\* the replacement text is not scanned again.
RECURSIVE replaceAll(_, _, _)
replaceAll(s, c, rep) ==
    IF s = <<>> THEN <<>>
    ELSE (IF Head(s) = c THEN rep ELSE <<Head(s)>>) \o replaceAll(Tail(s), c, rep)

AmpEntity == <<"&", "a", "m", "p", ";">>
LtEntity == <<"&", "l", "t", ";">>
GtEntity == <<"&", "g", "t", ";">>

escapeAmpLast(text) ==
    replaceAll(replaceAll(replaceAll(text, "<", LtEntity), ">", GtEntity), "&", AmpEntity)

escapeForXml(text) ==
    replaceAll(replaceAll(replaceAll(text, "&", AmpEntity), "<", LtEntity), ">", GtEntity)

(***************************************************************************)
(* Revisions and the knowledge base.                                       *)
(***************************************************************************)
Revs == {"server.js", "part_000", "part_001"}

\* server.js registers no /twilio-voice route.
VoiceRevs == {"part_000", "part_001"}

KbFiles == {"missing", "malformed", "record", "record without phone"}

FilePhone == <<"(703) 555-0134">>

EmptyRecord ==
    [business_name |-> <<>>, location |-> <<>>, summary |-> <<>>,
     service_area |-> <<>>, hours |-> <<>>, contact_phone |-> <<>>]

\* What JSON.parse gives for a knowledge-base.json that holds a record.  A
\* field the file lacks reads as undefined, modelled as the empty text: every
\* use of a field in the code is `field || default`.
FileRecord(file) ==
    [business_name |-> <<"Handyman of Fairfax">>,
     location |-> <<"Fairfax, VA">>,
     summary |-> <<"Local handyman service">>,
     service_area |-> <<"Fairfax", "Burke">>,
     hours |-> <<"Mon-Sat 8-6">>,
     contact_phone |-> IF file = "record" THEN FilePhone ELSE <<>>]

DefaultRecord ==
    [business_name |-> <<"Handyman of Fairfax">>,
     location |-> <<"Fairfax, VA">>,
     summary |-> <<"Local handyman service for small to medium home repairs, minor carpentry, TV mounting, and general home fixes.">>,
     service_area |-> <<"Fairfax", "Fairfax Station", "Burke", "Springfield">>,
     hours |-> <<"Monday-Saturday, 8:00 AM - 6:00 PM">>,
     contact_phone |-> <<"(555) 555-5555">>]

\* The catch branch of the load: only part_001 assigns a default record.
loadFailed(r) == IF r = "part_001" THEN DefaultRecord ELSE EmptyRecord

loadKnowledgeBase(r, file) ==
    IF file \in {"missing", "malformed"} THEN loadFailed(r) ELSE FileRecord(file)

(***************************************************************************)
(* The completion API as the helpers see it: fetch rejects (network        *)
(* failure), or resolves to a response with a status and a body.  `shape`  *)
(* says what response.json() and json.choices?.[0]?.message?.content find  *)
(* in the body.                                                            *)
(***************************************************************************)
Shapes == {"content", "no content", "no choices", "content not a string",
           "null", "not json"}

Rejected == [kind |-> "reject", status |-> 0, shape |-> "not json", content |-> <<>>]

Http(status, shape, content) ==
    [kind |-> "response", status |-> status, shape |-> shape, content |-> content]

NoUpstream == [kind |-> "none", status |-> 0, shape |-> "not json", content |-> <<>>]

\* Response.ok
ok(up) == up.status >= 200 /\ up.status <= 299

\* The outcomes the handlers are run against.
Upstreams ==
    {Rejected,
     Http(500, "not json", <<>>),
     Http(401, "no choices", <<>>),
     Http(200, "content", <<"x">>),
     Http(200, "content", <<" ">>),
     Http(200, "content", <<" ", "<", "&">>),
     Http(200, "no content", <<>>),
     Http(200, "null", <<>>)}

ChatFallback ==
    <<"I'm not sure how to answer that, but a handyman can call you back with more details.">>

PhoneFallback ==
    <<"Thank you for calling. A handyman will review your request and call you back shortly.">>

Threw == [threw |-> TRUE, text |-> <<>>]

Returned(text) == [threw |-> FALSE, text |-> text]

\* A thrown Error; `text` is its message, which the handlers hand to
\* console.error.
Thrown(message) == [threw |-> TRUE, text |-> message]

\* await response.text(): the raw body, standing as its shape and content.
responseText(up) == <<up.shape>> \o up.content

\* `OpenAI API error ${response.status}: ${text}`
apiErrorMessage(up) ==
    <<"OpenAI API error ", ToString(up.status), ": ">> \o responseText(up)

\* The part the two helpers share, from `await fetch` to `return answer.trim()`
\* (the prompt and the request body they build first decide none of it):
\*   fetch rejects                             -> the helper throws
\*   !response.ok                              -> throw new Error(status, text)
\*   response.json() rejects, json is null     -> the helper throws
\*   content is truthy and has no trim method  -> the helper throws
\*   (content || fallback).trim()
complete(up, fallback) ==
    IF up.kind = "reject" THEN Thrown(<<"fetch failed">>)
    ELSE IF ~ok(up) THEN Thrown(apiErrorMessage(up))
    ELSE IF up.shape \in {"not json", "null", "content not a string"}
    THEN Thrown(<<"TypeError or SyntaxError on the body">>)
    ELSE IF up.shape = "content" /\ up.content # <<>> THEN Returned(trim(up.content))
    ELSE Returned(trim(fallback))

askOpenAIForChat(up) == complete(up, ChatFallback)

askOpenAIForPhone(up) == complete(up, PhoneFallback)

(***************************************************************************)
(* The Twilio voice webhook.                                               *)
(***************************************************************************)
VoicePath == "/twilio-voice"

XmlHead == <<"<?xml version=\"1.0\" encoding=\"UTF-8\"?>", "\n", "<Response>">>

XmlTail == <<"</Response>">>

\* The helper twiml(xmlBody): the one res.send of the handler.
twiml(xmlBody) == XmlHead \o xmlBody \o XmlTail

gatherTwiml(r) ==
    <<"\n", "<Say voice=\"woman\">", "\n",
      "Thank you for calling Handyman of Fairfax, your local home repair specialist.",
      "\n", "</Say>", "\n", "<Pause length=\"1\"/>", "\n",
      "<Gather", " input=", "speech", " action=", "/twilio-voice", " method=", "POST",
      " speechTimeout=", "auto", ">", "\n",
      "<Say>", "\n",
      "Please briefly describe what you need help with.", "\n",
      (IF r = "part_000" THEN "For example, say something like:"
                         ELSE "For example, you can say:"), "\n",
      "I need a TV mounted, or I have a leaky faucet, or my door will not close properly.",
      "\n", "Then pause for a moment.", "\n", "</Say>", "\n", "</Gather>", "\n",
      "<Say>", "Sorry, I did not catch that. Please call again later.", "</Say>", "\n">>

\* knowledgeBase.contact_phone || "our regular number"
phoneOrRegular(kb) ==
    IF kb.contact_phone # <<>> THEN kb.contact_phone ELSE <<"our regular number">>

\* The no-credential document.  part_000 ends it after </Say>; part_001 adds
\* <Hangup/>.
fallbackTwiml(r, kb) ==
    <<"\n", "<Say>", "\n",
      "Thank you. Our AI assistant is not available at this moment.", "\n",
      "Please call us back at ">> \o escapeForXml(phoneOrRegular(kb)) \o
    <<".", "\n", "</Say>", "\n">> \o
    (IF r = "part_001" THEN <<"<Hangup/>", "\n">> ELSE <<>>)

responseTwiml(answer) ==
    <<"\n", "<Say voice=\"woman\">", "\n">> \o escapeForXml(answer) \o
    <<"\n", "</Say>", "\n", "<Pause length=\"1\"/>", "\n", "<Say>", "\n",
      "A member of the Handyman of Fairfax team will follow up with you as soon as possible.",
      "\n", "Thank you for calling. Goodbye.", "\n", "</Say>", "\n", "<Hangup/>", "\n">>

errorWithoutHangup ==
    <<"\n", "<Say>", "\n",
      "I am sorry, but there was a problem handling your request.", "\n",
      "Please try calling again in a few minutes.", "\n", "</Say>", "\n">>

errorTwiml ==
    <<"\n", "<Say>", "\n",
      "I am sorry, but there was a problem handling your request.", "\n",
      "Please try calling again in a few minutes.", "\n", "</Say>", "\n",
      "<Hangup/>", "\n">>

\* req.body.SpeechResult: absent from the form, or a string.
NoSpeech == [has |-> FALSE, s |-> <<>>]

Speech(s) == [has |-> TRUE, s |-> s]

SpeechResults ==
    {NoSpeech, Speech(<<>>), Speech(<<" ">>), Speech(<<" ", " ">>),
     Speech(<<"I have a leaky faucet">>),
     Speech(<<" ", "I have a leaky faucet", " ">>)}

\* const speechResult = (req.body.SpeechResult || "").trim();
speechResultOf(sp) == trim(IF sp.has THEN sp.s ELSE <<>>)

IdleCall ==
    [pc |-> "idle", speech |-> NoSpeech, fetched |-> FALSE, up |-> NoUpstream,
     sent |-> <<>>]

VoiceRequestNoReturn(c, sp) ==
    /\ running
    /\ rev \in VoiceRevs
    /\ calls[c].pc = "idle"
    /\ \A d \in CallIds : d < c => calls[d].pc # "idle"
    /\ LET speechResult == speechResultOf(sp)
           greeted == IF speechResult = <<>>
                      THEN [calls[c] EXCEPT !.sent = Append(@, twiml(gatherTwiml(rev)))]
                      ELSE calls[c]
       IN
         calls' = [calls EXCEPT ![c] =
           IF ~OPENAI_API_KEY
           THEN [greeted EXCEPT !.pc = "done", !.speech = sp,
                          !.sent = Append(@, twiml(fallbackTwiml(rev, knowledgeBase)))]
           ELSE [greeted EXCEPT !.pc = "await", !.speech = sp, !.fetched = TRUE]]
    /\ UNCHANGED <<rev, OPENAI_API_KEY, kbFile, knowledgeBase, running,
                   connOpen, msgs, wsSent, arg, ret>>

\* A request arrives and the handler runs to its first await or to its end.
\* Requests are numbered in arrival order.
VoiceRequest(c, sp) ==
    /\ running
    /\ rev \in VoiceRevs
    /\ calls[c].pc = "idle"
    /\ \A d \in CallIds : d < c => calls[d].pc # "idle"
    /\ LET speechResult == speechResultOf(sp) IN
         calls' = [calls EXCEPT ![c] =
           IF speechResult = <<>>
           THEN [@ EXCEPT !.pc = "done", !.speech = sp,
                          !.sent = Append(@, twiml(gatherTwiml(rev)))]
           ELSE IF ~OPENAI_API_KEY
           THEN [@ EXCEPT !.pc = "done", !.speech = sp,
                          !.sent = Append(@, twiml(fallbackTwiml(rev, knowledgeBase)))]
           ELSE [@ EXCEPT !.pc = "await", !.speech = sp, !.fetched = TRUE]]
    /\ UNCHANGED <<rev, OPENAI_API_KEY, kbFile, knowledgeBase, running,
                   connOpen, msgs, wsSent, arg, ret>>

\* The completion call of request c settles and the handler resumes after
\* `await askOpenAIForPhone(...)`: the try branch or the catch branch.
VoiceSettle(c, up) ==
    /\ running
    /\ calls[c].pc = "await"
    /\ LET r == askOpenAIForPhone(up) IN
         calls' = [calls EXCEPT ![c] =
           [@ EXCEPT !.pc = "done", !.up = up,
                     !.sent = Append(@, twiml(IF r.threw THEN errorTwiml
                                              ELSE responseTwiml(r.text)))]]
    /\ UNCHANGED <<rev, OPENAI_API_KEY, kbFile, knowledgeBase, running,
                   connOpen, msgs, wsSent, arg, ret>>

(***************************************************************************)
(* The WebSocket chat handler.                                             *)
(***************************************************************************)
\* JavaScript values, as far as `payload.question || ""` and `.trim()` tell
\* them apart.
Undefined == [t |-> "undefined", s |-> <<>>, n |-> 0]
Str(s) == [t |-> "string", s |-> s, n |-> 0]
Num(n) == [t |-> "number", s |-> <<>>, n |-> n]

Question == <<"Do you serve Springfield?">>

\* The text frames a client sends.
Frames ==
    {"hello", "null", "42", "{}",
     "{\"question\":\"\"}",
     "{\"question\":\"  \"}",
     "{\"question\":\"  \",\"name\":\"Ann\"}",
     "{\"question\":\"Do you serve Springfield?\"}",
     "{\"question\":\" Do you serve Springfield? \",\"name\":\"Ann\"}",
     "{\"question\":7}",
     "{\"question\":0}"}

SyntaxError == [threw |-> TRUE, t |-> "undefined", question |-> Undefined]

Parsed(t, q) == [threw |-> FALSE, t |-> t, question |-> q]

\* JSON.parse(data.toString()) on each frame: whether it throws, the type of
\* the value, and the value's own `question` property.
JSONparse(frame) ==
    CASE frame = "hello" -> SyntaxError
      [] frame = "null" -> Parsed("null", Undefined)
      [] frame = "42" -> Parsed("number", Undefined)
      [] frame = "{}" -> Parsed("object", Undefined)
      [] frame = "{\"question\":\"\"}" -> Parsed("object", Str(<<>>))
      [] frame = "{\"question\":\"  \"}" -> Parsed("object", Str(<<" ", " ">>))
      [] frame = "{\"question\":\"  \",\"name\":\"Ann\"}" ->
             Parsed("object", Str(<<" ", " ">>))
      [] frame = "{\"question\":\"Do you serve Springfield?\"}" ->
             Parsed("object", Str(Question))
      [] frame = "{\"question\":\" Do you serve Springfield? \",\"name\":\"Ann\"}" ->
             Parsed("object", Str(<<" ">> \o Question \o <<" ">>))
      [] frame = "{\"question\":7}" -> Parsed("object", Num(7))
      [] frame = "{\"question\":0}" -> Parsed("object", Num(0))

\* ToBoolean
Truthy(v) ==
    CASE v.t = "string" -> v.s # <<>>
      [] v.t = "number" -> v.n # 0
      [] OTHER -> FALSE

TypeError == [threw |-> TRUE, text |-> <<>>]

\* const question = (payload.question || "").trim();
\*   payload is null             -> TypeError (property of null)
\*   question truthy, no .trim   -> TypeError (trim is not a function)
questionOfUntrimmed(payload) ==
    IF payload.t = "null" THEN TypeError
    ELSE IF ~Truthy(payload.question) THEN Returned(<<>>)
    ELSE IF payload.question.t # "string" THEN TypeError
    ELSE Returned(payload.question.s)

questionOf(payload) ==
    IF payload.t = "null" THEN TypeError
    ELSE IF ~Truthy(payload.question) THEN Returned(trim(<<>>))
    ELSE IF payload.question.t # "string" THEN TypeError
    ELSE Returned(trim(payload.question.s))

Message(m, type, key, text) == [re |-> m, type |-> type, key |-> key, text |-> text]

InfoMessage ==
    <<"Connected to Handyman of Fairfax AI assistant. Send { \"question\": \"...\" } as JSON.">>

InvalidJson == <<"Invalid JSON">>

MissingQuestion == <<"Missing ", "\"question\"", " field in payload.">>

\* knowledgeBase.contact_phone || "(phone not set)"
phoneOrNotSet(kb) ==
    IF kb.contact_phone # <<>> THEN kb.contact_phone ELSE <<"(phone not set)">>

noKeyAnswerWithoutPhone(r, kb) ==
    <<"The AI backend is not fully configured yet (missing API key).">>

noKeyAnswer(r, kb) ==
    <<IF r = "part_001"
      THEN "The AI backend is not fully configured yet (missing API key). Please contact Handyman of Fairfax directly at "
      ELSE "The AI backend isn't fully configured yet (no API key). Please contact Handyman of Fairfax directly at ">>
    \o phoneOrNotSet(kb) \o <<".">>

problemMessage(r) ==
    <<IF r = "part_001"
      THEN "There was a problem talking to the AI. Please try again later or call the handyman directly."
      ELSE "There was a problem talking to the AI. Please try again, or call the handyman directly.">>

IdleMsg == [pc |-> "idle", frame |-> "", fetched |-> FALSE, up |-> NoUpstream]

ConnectWithoutWelcome ==
    /\ running
    /\ ~connOpen
    /\ wsSent = <<>>
    /\ connOpen' = TRUE
    /\ wsSent' = wsSent
    /\ UNCHANGED <<rev, OPENAI_API_KEY, kbFile, knowledgeBase, running, calls,
                   msgs, arg, ret>>

\* wss.on("connection"): the welcome message.  Message 0 is the connection.
Connect ==
    /\ running
    /\ ~connOpen
    /\ wsSent = <<>>
    /\ connOpen' = TRUE
    /\ wsSent' = <<Message(0, "info", "message", InfoMessage)>>
    /\ UNCHANGED <<rev, OPENAI_API_KEY, kbFile, knowledgeBase, running, calls,
                   msgs, arg, ret>>

handleFrameNoReturn(r, key, kb, frame) ==
    LET payload == JSONparse(frame)
        question == IF payload.threw THEN TypeError ELSE questionOf(payload)
    IN  IF question.threw
        THEN [pc |-> "fault", type |-> "", key |-> "", text |-> <<>>]
        ELSE IF question.text = <<>>
        THEN [pc |-> "done", type |-> "error", key |-> "message", text |-> MissingQuestion]
        ELSE IF ~key
        THEN [pc |-> "done", type |-> "answer", key |-> "answer", text |-> noKeyAnswer(r, kb)]
        ELSE [pc |-> "await", type |-> "", key |-> "", text |-> <<>>]

\* What the handler does with one frame up to its first await or its end:
\* what it sends, where it stops, and whether it threw.  A throw inside the
\* async listener is a rejected promise nobody handles.
handleFrame(r, key, kb, frame) ==
    LET payload == JSONparse(frame)
        question == questionOf(payload)
    IN  IF payload.threw
        THEN [pc |-> "done", type |-> "error", key |-> "message", text |-> InvalidJson]
        ELSE IF question.threw
        THEN [pc |-> "fault", type |-> "", key |-> "", text |-> <<>>]
        ELSE IF question.text = <<>>
        THEN [pc |-> "done", type |-> "error", key |-> "message", text |-> MissingQuestion]
        ELSE IF ~key
        THEN [pc |-> "done", type |-> "answer", key |-> "answer", text |-> noKeyAnswer(r, kb)]
        ELSE [pc |-> "await", type |-> "", key |-> "", text |-> <<>>]

\* ws.on("message") for the m-th frame of the connection.  Node ends the
\* process on an unhandled rejection, and the connection with it.
ChatMessage(m, frame) ==
    /\ running
    /\ connOpen
    /\ msgs[m].pc = "idle"
    /\ \A k \in MsgIds : k < m => msgs[k].pc # "idle"
    /\ LET h == handleFrame(rev, OPENAI_API_KEY, knowledgeBase, frame) IN
         /\ msgs' = [msgs EXCEPT ![m] =
                       [@ EXCEPT !.pc = h.pc, !.frame = frame,
                                 !.fetched = (h.pc = "await")]]
         /\ wsSent' = IF h.pc = "done"
                      THEN Append(wsSent, Message(m, h.type, h.key, h.text))
                      ELSE wsSent
         /\ running' = (h.pc # "fault")
         /\ connOpen' = (h.pc # "fault")
    /\ UNCHANGED <<rev, OPENAI_API_KEY, kbFile, knowledgeBase, calls, arg, ret>>

settleLeaksError(r, res) ==
    IF res.threw
    THEN [type |-> "error", key |-> "message", text |-> res.text]
    ELSE [type |-> "answer", key |-> "answer", text |-> res.text]

settleOneAtATime(r, res) ==
    IF res.threw \/ Cardinality({k \in MsgIds : msgs[k].pc = "await"}) > 1
    THEN [type |-> "error", key |-> "message", text |-> problemMessage(r)]
    ELSE [type |-> "answer", key |-> "answer", text |-> res.text]

settleAlwaysAnswer(r, res) ==
    [type |-> "answer", key |-> "answer", text |-> res.text]

\* The try/catch around `await askOpenAIForChat(...)`.
settleChat(r, res) ==
    IF res.threw
    THEN [type |-> "error", key |-> "message", text |-> problemMessage(r)]
    ELSE [type |-> "answer", key |-> "answer", text |-> res.text]

\* The completion call of frame m settles and the handler resumes.
ChatSettle(m, up) ==
    /\ running
    /\ connOpen
    /\ msgs[m].pc = "await"
    /\ LET h == settleChat(rev, askOpenAIForChat(up)) IN
         /\ msgs' = [msgs EXCEPT ![m] = [@ EXCEPT !.pc = "done", !.up = up]]
         /\ wsSent' = Append(wsSent, Message(m, h.type, h.key, h.text))
    /\ UNCHANGED <<rev, OPENAI_API_KEY, kbFile, knowledgeBase, running, calls,
                   connOpen, arg, ret>>

(***************************************************************************)
(* Specifications.                                                         *)
(***************************************************************************)
NoArg == [fn |-> "none", text |-> <<>>, up |-> NoUpstream]

NoRet == [done |-> FALSE, doc |-> <<>>, chat |-> Threw, phone |-> Threw]

\* The process after startup: configuration read, knowledge base loaded, no
\* request yet.
Startup ==
    /\ rev \in Revs
    /\ OPENAI_API_KEY \in BOOLEAN
    /\ kbFile \in KbFiles
    /\ knowledgeBase = loadKnowledgeBase(rev, kbFile)
    /\ running = TRUE
    /\ calls = [c \in CallIds |-> IdleCall]
    /\ connOpen = FALSE
    /\ msgs = [m \in MsgIds |-> IdleMsg]
    /\ wsSent = <<>>

InitVoice == Startup /\ rev \in VoiceRevs /\ arg = NoArg /\ ret = NoRet

NextVoice ==
    \/ \E c \in CallIds, sp \in SpeechResults : VoiceRequest(c, sp)
    \/ \E c \in CallIds, up \in Upstreams : VoiceSettle(c, up)

SpecVoice == InitVoice /\ [][NextVoice]_vars

\* The completion call of a request that awaits one settles in the end: fetch
\* resolves or rejects.
VoiceFairness ==
    \A c \in CallIds : WF_vars(\E up \in Upstreams : VoiceSettle(c, up))

SpecVoiceFair == InitVoice /\ [][NextVoice]_vars /\ VoiceFairness

InitChat == Startup /\ arg = NoArg /\ ret = NoRet

NextChat ==
    \/ Connect
    \/ \E m \in MsgIds, frame \in Frames : ChatMessage(m, frame)
    \/ \E m \in MsgIds, up \in Upstreams : ChatSettle(m, up)

SpecChat == InitChat /\ [][NextChat]_vars

\* The helpers on their own, over every text up to MaxLen.
InitHelper ==
    /\ Startup
    /\ rev = "part_001"
    /\ OPENAI_API_KEY = TRUE
    /\ kbFile = "record"
    /\ ret = NoRet

AnswerArgs == {[fn |-> "responseTwiml", text |-> t, up |-> NoUpstream] : t \in Texts(MaxLen)}

WideUpstreams ==
    {Http(200, "content", t) : t \in Texts(MaxLen)}
    \cup {Http(st, sh, <<>>) : st \in {200, 201, 500}, sh \in Shapes \ {"content"}}
    \cup {Rejected}

CompleteArgs == {[fn |-> "complete", text |-> <<>>, up |-> u] : u \in WideUpstreams}

\* The success branch of the voice handler after the await: the document it
\* sends for an answer.
ApplyResponseTwiml ==
    /\ arg.fn = "responseTwiml"
    /\ ~ret.done
    /\ ret' = [ret EXCEPT !.done = TRUE, !.doc = twiml(responseTwiml(arg.text))]
    /\ UNCHANGED <<rev, OPENAI_API_KEY, kbFile, knowledgeBase, running, calls,
                   connOpen, msgs, wsSent, arg>>

\* Both completion helpers on one outcome of the remote call.
ApplyComplete ==
    /\ arg.fn = "complete"
    /\ ~ret.done
    /\ ret' = [ret EXCEPT !.done = TRUE, !.chat = askOpenAIForChat(arg.up),
                          !.phone = askOpenAIForPhone(arg.up)]
    /\ UNCHANGED <<rev, OPENAI_API_KEY, kbFile, knowledgeBase, running, calls,
                   connOpen, msgs, wsSent, arg>>

InitEscape == InitHelper /\ arg \in AnswerArgs

SpecEscape == InitEscape /\ [][ApplyResponseTwiml]_vars

InitComplete == InitHelper /\ arg \in CompleteArgs

SpecComplete == InitComplete /\ [][ApplyComplete]_vars

(***************************************************************************)
(* Vocabulary of the properties.                                           *)
(***************************************************************************)
\* A text that is empty after trimming: nothing but white space.
IsBlank(t) == \A i \in 1..Len(t) : t[i] = " "

\* s occurs in t as a contiguous run of pieces.
Contains(t, s) ==
    \E i \in 0..(Len(t) - Len(s)) : SubSeq(t, i + 1, i + Len(s)) = s

HasPiece(doc, piece) == \E i \in 1..Len(doc) : doc[i] = piece

\* A <Gather> tag taking speech whose action attribute is `path`.
GathersSpeechTo(doc, path) ==
    \E i \in 1..Len(doc) :
        /\ doc[i] = "<Gather"
        /\ \E k \in (i + 1)..Len(doc) :
              /\ doc[k] = ">"
              /\ \A j \in (i + 1)..(k - 1) : doc[j] # ">"
              /\ \E j \in (i + 1)..(k - 2) : doc[j] = " action=" /\ doc[j + 1] = path
              /\ \E j \in (i + 1)..(k - 2) : doc[j] = " input=" /\ doc[j + 1] = "speech"

\* The request is past its arrival and its SpeechResult is absent or blank.
GreetingTurn(c) == calls[c].pc # "idle" /\ IsBlank(calls[c].speech.s)

AnswerTurn(c) == calls[c].pc # "idle" /\ ~IsBlank(calls[c].speech.s)

\* The completion call succeeded: a success status and a body of the
\* chat-completions shape, an object whose first choice's message content is a
\* string or is missing.
Succeeded(up) ==
    /\ up.kind = "response"
    /\ up.status \in 200..299
    /\ up.shape \in {"content", "no content", "no choices"}

\* C1: a request whose trimmed SpeechResult is non-empty, with no credential
\* configured, is answered by a document that holds the knowledge record's
\* contact phone and a <Hangup/> element, and makes no completion call.
C1_NoCredentialHangsUp ==
    \A c \in CallIds :
        (AnswerTurn(c) /\ ~OPENAI_API_KEY) =>
            /\ calls[c].pc = "done"
            /\ Len(calls[c].sent) = 1
            /\ Contains(calls[c].sent[1], knowledgeBase.contact_phone)
            /\ HasPiece(calls[c].sent[1], "<Hangup/>")
            /\ ~calls[c].fetched

\* C2: a request whose SpeechResult is absent, empty or blank is answered,
\* whatever came before it and with or without a credential, by a document
\* with a speech <Gather> whose action is /twilio-voice and no <Hangup/>, and
\* makes no completion call.
C2_GreetingGathers ==
    \A c \in CallIds :
        GreetingTurn(c) =>
            /\ calls[c].pc = "done"
            /\ Len(calls[c].sent) = 1
            /\ GathersSpeechTo(calls[c].sent[1], VoicePath)
            /\ ~HasPiece(calls[c].sent[1], "<Hangup/>")
            /\ ~calls[c].fetched

\* A greeting with blank (not empty) speech, a credential configured, after an
\* earlier request that was answered by the completion API.
C2_Witness ==
    /\ OPENAI_API_KEY
    /\ MaxCalls \in CallIds
    /\ calls[1].pc = "done" /\ Succeeded(calls[1].up)
    /\ calls[MaxCalls].pc = "done"
    /\ calls[MaxCalls].speech = Speech(<<" ", " ">>)
    /\ GathersSpeechTo(calls[MaxCalls].sent[1], VoicePath)

\* C3: with a credential, a request whose trimmed SpeechResult is non-empty
\* is answered, once its completion call has succeeded or failed, by a
\* document with a <Hangup/> element and no <Gather>.
C3_AnswerHangsUp ==
    \A c \in CallIds :
        (AnswerTurn(c) /\ OPENAI_API_KEY /\ calls[c].pc = "done") =>
            /\ calls[c].fetched
            /\ Len(calls[c].sent) = 1
            /\ HasPiece(calls[c].sent[1], "<Hangup/>")
            /\ ~HasPiece(calls[c].sent[1], "<Gather")

\* One answer turn whose completion call failed and, after it, one whose
\* completion call succeeded, both answered.
C3_Witness ==
    /\ OPENAI_API_KEY
    /\ calls[1].pc = "done" /\ AnswerTurn(1) /\ ~Succeeded(calls[1].up)
    /\ calls[MaxCalls].pc = "done" /\ AnswerTurn(MaxCalls) /\ Succeeded(calls[MaxCalls].up)
    /\ HasPiece(calls[1].sent[1], "<Hangup/>")
    /\ HasPiece(calls[MaxCalls].sent[1], "<Hangup/>")

\* What ws.send put on the connection in reply to frame m.
ResponsesTo(m) == SelectSeq(wsSent, LAMBDA x : x.re = m)

\* The frame parses to a JSON object whose question is a string that is not
\* blank: a well-formed chat message.
AsksQuestion(frame) ==
    LET p == JSONparse(frame) IN
        /\ ~p.threw
        /\ p.t = "object"
        /\ p.question.t = "string"
        /\ ~IsBlank(p.question.s)

\* The frame parses to a JSON value other than null with no question
\* property, or with one that is an empty or blank string.
QuestionMissing(frame) ==
    LET p == JSONparse(frame) IN
        /\ ~p.threw
        /\ p.t # "null"
        /\ \/ p.question.t = "undefined"
           \/ p.question.t = "string" /\ IsBlank(p.question.s)

\* The handler is through with frame m: it has returned, or thrown.
Handled(m) == msgs[m].pc \in {"done", "fault"}

\* C4 as stated: with a credential, every well-formed message with a
\* non-blank question gets a response of type 'answer'.
C4_AlwaysAnswer ==
    \A m \in MsgIds :
        (Handled(m) /\ OPENAI_API_KEY /\ AsksQuestion(msgs[m].frame)) =>
            /\ Len(ResponsesTo(m)) = 1
            /\ ResponsesTo(m)[1].type = "answer"

\* C4 as amended: with a credential, every well-formed message with a
\* non-blank question gets one response, of type 'answer' when its completion
\* call succeeds and of type 'error' when it fails.
C4_AnswerWhenCompletionSucceeds ==
    \A m \in MsgIds :
        (Handled(m) /\ OPENAI_API_KEY /\ AsksQuestion(msgs[m].frame)) =>
            /\ msgs[m].fetched
            /\ Len(ResponsesTo(m)) = 1
            /\ ResponsesTo(m)[1].type =
                   IF Succeeded(msgs[m].up) THEN "answer" ELSE "error"

C4_Witness ==
    \E m \in MsgIds :
        /\ OPENAI_API_KEY
        /\ Handled(m)
        /\ AsksQuestion(msgs[m].frame)
        /\ Succeeded(msgs[m].up)
        /\ ResponsesTo(m)[1].type = "answer"

\* C5: no frame ends in an unhandled fault: once the handler is through with
\* a frame that parses as JSON, it has sent exactly one response, of type
\* 'answer' or 'error'.
C5_EveryJsonFrameAnswered ==
    \A m \in MsgIds :
        (Handled(m) /\ ~JSONparse(msgs[m].frame).threw) =>
            /\ msgs[m].pc # "fault"
            /\ Len(ResponsesTo(m)) = 1
            /\ ResponsesTo(m)[1].type \in {"answer", "error"}

\* C6: a message whose question is absent, empty or blank gets one response
\* of type 'error' that names the question field, whatever else the payload
\* holds and with or without a credential, and makes no completion call.
C6_MissingQuestionIsError ==
    \A m \in MsgIds :
        (msgs[m].pc # "idle" /\ QuestionMissing(msgs[m].frame)) =>
            /\ msgs[m].pc = "done"
            /\ Len(ResponsesTo(m)) = 1
            /\ ResponsesTo(m)[1].type = "error"
            /\ HasPiece(ResponsesTo(m)[1].text, "\"question\"")
            /\ ~msgs[m].fetched

\* A blank question beside another field, with a credential configured.
C6_Witness ==
    \E m \in MsgIds :
        /\ OPENAI_API_KEY
        /\ msgs[m].frame = "{\"question\":\"  \",\"name\":\"Ann\"}"
        /\ msgs[m].pc = "done"
        /\ ResponsesTo(m)[1].type = "error"

\* Two responses that are the same but for the frame they reply to.
SameReply(a, b) == a.type = b.type /\ a.key = b.key /\ a.text = b.text

\* C7: a frame that does not parse gets exactly one response, of type 'error'
\* with message 'Invalid JSON', and makes no completion call; the connection
\* stays open (it is open as long as no handler has thrown), and a frame gets
\* the same response after other frames as it gets as the first frame of the
\* connection with the same outcome of its completion call.
C7_InvalidJsonKeepsConnection ==
    /\ \A m \in MsgIds :
          (msgs[m].pc # "idle" /\ JSONparse(msgs[m].frame).threw) =>
              /\ msgs[m].pc = "done"
              /\ Len(ResponsesTo(m)) = 1
              /\ ResponsesTo(m)[1].type = "error"
              /\ ResponsesTo(m)[1].text = <<"Invalid JSON">>
              /\ ~msgs[m].fetched
    /\ (wsSent # <<>> /\ \A m \in MsgIds : msgs[m].pc # "fault") => connOpen /\ running
    /\ \A m \in MsgIds :
          (msgs[1].pc = "done" /\ msgs[m].pc = "done"
             /\ msgs[m].frame = msgs[1].frame /\ msgs[m].up = msgs[1].up) =>
              /\ Len(ResponsesTo(m)) = Len(ResponsesTo(1))
              /\ SameReply(ResponsesTo(m)[1], ResponsesTo(1)[1])

\* A frame that does not parse, answered, and after it a question answered on
\* the same connection.
C7_Witness ==
    /\ MaxMsgs \in MsgIds
    /\ msgs[1].pc = "done" /\ JSONparse(msgs[1].frame).threw
    /\ ResponsesTo(1)[1].text = <<"Invalid JSON">>
    /\ msgs[MaxMsgs].pc = "done" /\ AsksQuestion(msgs[MaxMsgs].frame)
    /\ ResponsesTo(MaxMsgs)[1].type = "answer"
    /\ connOpen

\* C8: without a credential, a message with a non-blank question gets one
\* response of type 'answer' whose text holds the knowledge record's contact
\* phone, and makes no completion call.
C8_NoCredentialAnswerHasPhone ==
    \A m \in MsgIds :
        (msgs[m].pc # "idle" /\ AsksQuestion(msgs[m].frame) /\ ~OPENAI_API_KEY) =>
            /\ msgs[m].pc = "done"
            /\ Len(ResponsesTo(m)) = 1
            /\ ResponsesTo(m)[1].type = "answer"
            /\ Contains(ResponsesTo(m)[1].text, knowledgeBase.contact_phone)
            /\ ~msgs[m].fetched

C8_Witness ==
    \E m \in MsgIds :
        /\ ~OPENAI_API_KEY
        /\ knowledgeBase.contact_phone = FilePhone
        /\ msgs[m].pc = "done"
        /\ AsksQuestion(msgs[m].frame)
        /\ Contains(ResponsesTo(m)[1].text, FilePhone)

\* The position of the first piece of doc equal to `piece` (0 if none).
FirstIndex(doc, piece) ==
    IF HasPiece(doc, piece)
    THEN CHOOSE i \in 1..Len(doc) :
             doc[i] = piece /\ \A j \in 1..(i - 1) : doc[j] # piece
    ELSE 0

\* The text of the document's first <Say voice="woman"> element: the pieces
\* between the tag and the </Say> that closes it.
SayText(doc) ==
    LET from == FirstIndex(doc, "<Say voice=\"woman\">")
        to == FirstIndex(doc, "</Say>")
    IN  IF from = 0 \/ to <= from THEN <<>> ELSE SubSeq(doc, from + 1, to - 1)

\* The entity that stands for one character in XML text.
Entity(c) ==
    CASE c = "&" -> <<"&", "a", "m", "p", ";">>
      [] c = "<" -> <<"&", "l", "t", ";">>
      [] c = ">" -> <<"&", "g", "t", ";">>
      [] OTHER -> <<c>>

RECURSIVE EachEscaped(_)
EachEscaped(t) == IF t = <<>> THEN <<>> ELSE Entity(Head(t)) \o EachEscaped(Tail(t))

\* t[i..] starts with s.
StartsAt(t, i, s) == i + Len(s) - 1 <= Len(t) /\ SubSeq(t, i, i + Len(s) - 1) = s

\* C9: the answer embedded in the response document is XML-escaped: each '&',
\* '<' and '>' of the answer stands in the document as '&amp;', '&lt;' and
\* '&gt;', every other character as itself, and the embedded text holds no
\* raw '<' or '>' and no '&' that does not start one of these entities.
C9_AnswerIsXmlEscaped ==
    ret.done =>
        LET t == SayText(ret.doc) IN
            /\ t = <<"\n">> \o EachEscaped(arg.text) \o <<"\n">>
            /\ \A i \in 1..Len(t) : t[i] \notin {"<", ">"}
            /\ \A i \in 1..Len(t) :
                  t[i] = "&" =>
                      \/ StartsAt(t, i, Entity("&"))
                      \/ StartsAt(t, i, Entity("<"))
                      \/ StartsAt(t, i, Entity(">"))

\* The document for an answer that holds all three characters.
C9_Witness ==
    /\ ret.done
    /\ arg.text = <<"<", "&", ">">>
    /\ Contains(ret.doc, Entity("<") \o Entity("&") \o Entity(">"))

ContentPresent(up) == up.shape = "content" /\ up.content # <<>>

\* What the claim asks of one helper's result r on outcome up.
TextFor(r, up, fallback) ==
    /\ ~r.threw
    /\ r.text # <<>>
    /\ IF ContentPresent(up) THEN Contains(up.content, r.text) ELSE r.text = fallback

\* C10: on a success status with a well-formed body each completion helper
\* returns text and does not fail: the first choice's message content when it
\* is present, the helper's fixed fallback sentence otherwise, and never the
\* empty text.
C10_CompletionTextNeverEmpty ==
    (ret.done /\ Succeeded(arg.up)) =>
        /\ TextFor(ret.chat, arg.up, ChatFallback)
        /\ TextFor(ret.phone, arg.up, PhoneFallback)

\* Frame m made a completion call and the call failed: fetch rejected, the
\* status was not a success status, or the body could not be read.
CompletionFailed(m) ==
    msgs[m].pc = "done" /\ msgs[m].fetched /\ ~Succeeded(msgs[m].up)

\* C11: when the completion call of a message fails, the client gets one
\* response of type 'error'; the response is the same whatever the status and
\* the body of the failure (two failed messages of one connection get equal
\* responses) and holds neither the status nor the body.
C11_FailureIsGenericError ==
    \A m \in MsgIds :
        CompletionFailed(m) =>
            /\ Len(ResponsesTo(m)) = 1
            /\ ResponsesTo(m)[1].type = "error"
            /\ ResponsesTo(m)[1].key = "message"
            /\ ~HasPiece(ResponsesTo(m)[1].text, ToString(msgs[m].up.status))
            /\ ~HasPiece(ResponsesTo(m)[1].text, msgs[m].up.shape)
            /\ \A k \in MsgIds :
                  CompletionFailed(k) => SameReply(ResponsesTo(m)[1], ResponsesTo(k)[1])

\* Two messages whose completion calls failed with different statuses and
\* bodies, both answered.
C11_Witness ==
    /\ MaxMsgs \in MsgIds
    /\ CompletionFailed(1) /\ CompletionFailed(MaxMsgs)
    /\ msgs[1].up.kind = "response" /\ msgs[MaxMsgs].up.kind = "response"
    /\ msgs[1].up.status # msgs[MaxMsgs].up.status
    /\ msgs[1].up.shape # msgs[MaxMsgs].up.shape
    /\ SameReply(ResponsesTo(1)[1], ResponsesTo(MaxMsgs)[1])

\* The record holds placeholder business data in every field the built-in
\* default gives: name, location, summary, service area, hours, phone.
Populated(kb) ==
    /\ kb.business_name # <<>>
    /\ kb.location # <<>>
    /\ kb.summary # <<>>
    /\ kb.service_area # <<>>
    /\ kb.hours # <<>>
    /\ kb.contact_phone # <<>>

\* C12: when knowledge-base.json is missing or malformed at startup the
\* process still starts, and the record every later request reads is the
\* built-in default, populated with placeholder business data, not an empty
\* record.
C12_LoadFailureGivesDefault ==
    kbFile \in {"missing", "malformed"} =>
        /\ Populated(knowledgeBase)
        /\ (\A m \in MsgIds : msgs[m].pc = "idle") => running

\* Request c stands where the handler's control flow allows: no document
\* before it arrives or while it awaits its own completion call, one document
\* once the handler has returned, and a wait only on the answer turn with a
\* credential.
OneDocument(c) ==
    /\ Len(calls[c].sent) <= 1
    /\ calls[c].pc \in {"idle", "await"} => calls[c].sent = <<>>
    /\ calls[c].pc = "done" => Len(calls[c].sent) = 1
    /\ calls[c].pc = "await" => AnswerTurn(c) /\ OPENAI_API_KEY /\ calls[c].fetched
    /\ (GreetingTurn(c) \/ (AnswerTurn(c) /\ ~OPENAI_API_KEY)) =>
           calls[c].pc = "done" /\ ~calls[c].fetched

C14_OneInfoFirst ==
    /\ (connOpen \/ \E m \in MsgIds : msgs[m].pc # "idle") =>
           /\ wsSent # <<>>
           /\ wsSent[1].type = "info"
           /\ wsSent[1].re = 0
    /\ \A i \in 2..Len(wsSent) : wsSent[i].type \in {"answer", "error"} /\ wsSent[i].re # 0

\* The welcome message followed by an error and an answer.
C14_Witness ==
    /\ Len(wsSent) >= 3
    /\ wsSent[1].type = "info"
    /\ \E i \in 2..Len(wsSent) : wsSent[i].type = "answer"
    /\ \E i \in 2..Len(wsSent) : wsSent[i].type = "error"

\* C15: messages of one connection are handled independently.  A message
\* gets at most one response, whatever the other messages are doing; the
\* response of a handled message depends only on its frame and on the outcome
\* of its own completion call (two handled messages with equal frames and
\* equal outcomes get equal responses, in whatever order they were settled);
\* and a message waiting for its completion call has no response yet while
\* later messages may already have theirs.
C15_ResponsesAreIndependent ==
    /\ \A m \in MsgIds :
          LET sent == Len(ResponsesTo(m)) IN
              /\ sent <= 1
              /\ msgs[m].pc = "await" => sent = 0
              /\ msgs[m].pc = "done" => sent = 1
    /\ \A m, k \in MsgIds :
          (msgs[m].pc = "done" /\ msgs[k].pc = "done"
             /\ msgs[m].frame = msgs[k].frame /\ msgs[m].up = msgs[k].up) =>
              SameReply(ResponsesTo(m)[1], ResponsesTo(k)[1])

\* Two questions in flight at once, the later one answered first: its answer
\* precedes the answer of the earlier one among the messages sent.
C15_Witness ==
    \E i, j \in 1..Len(wsSent) :
        /\ i < j
        /\ wsSent[j].re # 0
        /\ wsSent[i].re > wsSent[j].re
        /\ msgs[wsSent[i].re].fetched /\ msgs[wsSent[j].re].fetched
        /\ wsSent[i].type = "answer" /\ wsSent[j].type = "answer"

====
